---- MODULE Spec2Model ----
(***************************************************************************)
(* Model of the federated-learning harness codymlewis/ppdhfl:              *)
(*   - the weight-tree algebra of ablation/utils/weights.py,               *)
(*   - DataIter / Dataset.get_iter / Dataset.fed_split of                  *)
(*     ablation/utils/datasets.py,                                         *)
(*   - the Dirichlet partitioner lda of performance/main.py.               *)
(*                                                                         *)
(* A tensor is a record [shape, data]: data is the row-major (C order)     *)
(* sequence of its elements.  Elements are exact rationals [n, d] with     *)
(* d = 0 standing for +inf (n = 1), -inf (n = -1) and nan (n = 0), the     *)
(* values numpy's true division produces.  A Python list is an object of   *)
(* the heap, so that "the same list" and "a new list" can be told apart.   *)
(***************************************************************************)
EXTENDS Integers, Sequences, FiniteSets, TLC

VARIABLES
    heap,       \* object id -> value: a weight tree (list of tensors) or a flat vector
    skel_g,     \* named skeleton of the global (server) model
    skel_l,     \* named skeleton of the local (client) model
    call,       \* the last call of the weights module: op, args, ret, raised
    lda,        \* the frame of main.lda: Y, proportions, c, distribution, ...
    ds,         \* the Dataset object: X, y, train_idx, classes
    gens,       \* generator instance -> number of draws made from it
    iters,      \* the DataIter objects created so far
    batch,      \* what the last DataIter.__next__ returned
    rands       \* the calls of weights.uniform / weights.add_normal made so far

vars == <<heap, skel_g, skel_l, call, lda, ds, gens, iters, batch, rands>>

(***************************************************************************)
(* Bounds of the model.                                                    *)
(***************************************************************************)
MaxLen == 2         \* tensors per weight tree (weights algebra)
MaxNames == 3       \* tensors of the global model (partition / expand)
MaxDim == 2         \* size of a tensor along one axis
MaxVec == 3         \* length of the flat input vector
MaxCalls == 1       \* calls of the weights module per behaviour (weights algebra)
MaxPipe == 2        \* calls per behaviour (partition / expand pipeline)
MaxSamples == 3     \* labels in Y (lda)
MaxClients == 3     \* nclients (lda)
MaxClasses == 2     \* nclasses (lda)
PropDen == 4        \* a Dirichlet draw is a vector of multiples of 1/PropDen
MaxData == 2        \* samples of the Dataset
MaxBatch == 2       \* requested batch size
MaxIters == 2       \* DataIter objects per behaviour
MaxGens == 1        \* generators the caller makes
MaxDraws == 2       \* draws from one generator
MaxRands == 2       \* calls of uniform / add_normal per behaviour
MaxHeld == 2        \* samples a DataIter holds after a map

(***************************************************************************)
(* Numbers: exact rationals with the IEEE specials of float division.      *)
(***************************************************************************)
Abs(x) == IF x < 0 THEN -x ELSE x

Sign(x) == IF x < 0 THEN -1 ELSE IF x > 0 THEN 1 ELSE 0

Min2(a, b) == IF a <= b THEN a ELSE b

Max2(a, b) == IF a >= b THEN a ELSE b

RECURSIVE Gcd(_, _)
Gcd(a, b) == IF b = 0 THEN a ELSE Gcd(b, a % b)

\* the canonical form of n/d
Q(n, d) ==
    IF d = 0 THEN [n |-> Sign(n), d |-> 0]
    ELSE LET g == Gcd(Abs(n), Abs(d))
             s == Sign(d)
         IN [n |-> s * (n \div g), d |-> s * (d \div g)]

Num(i) == [n |-> i, d |-> 1]

Zero == Num(0)

One == Num(1)

NaN == [n |-> 0, d |-> 0]

IsNaN(x) == x.n = 0 /\ x.d = 0

\* a * b
NMul(a, b) == Q(a.n * b.n, a.d * b.d)

\* a + b (inf + inf = inf, inf - inf = nan)
NAdd(a, b) ==
    IF a.d = 0 /\ b.d = 0 THEN (IF a.n = b.n THEN a ELSE NaN)
    ELSE IF a.d = 0 THEN a
    ELSE IF b.d = 0 THEN b
    ELSE Q(a.n * b.d + b.n * a.d, a.d * b.d)

NNeg(a) == [n |-> -a.n, d |-> a.d]

\* a - b
NSub(a, b) == NAdd(a, NNeg(b))

\* a / b, numpy's true division: x/0 is +-inf, 0/0 is nan, never an error
NDiv(a, b) ==
    IF IsNaN(a) \/ IsNaN(b) THEN NaN
    ELSE IF a.d = 0 /\ b.d = 0 THEN NaN
    ELSE IF b.d = 0 THEN Zero
    ELSE IF b.n = 0 THEN Q(a.n, 0)
    ELSE Q(a.n * b.d, a.d * b.n)

\* a < b on non-nan values
NLess(a, b) ==
    IF a.d = 0 /\ b.d = 0 THEN a.n < b.n
    ELSE a.n * b.d < b.n * a.d

\* numpy.minimum / numpy.maximum of two elements: nan propagates
NMin(a, b) == IF IsNaN(a) \/ IsNaN(b) THEN NaN ELSE IF NLess(b, a) THEN b ELSE a

NMax(a, b) == IF IsNaN(a) \/ IsNaN(b) THEN NaN ELSE IF NLess(a, b) THEN b ELSE a

(***************************************************************************)
(* Tensors (numpy.ndarray): shape and row-major data.                      *)
(***************************************************************************)
RECURSIVE Prod(_)
Prod(shape) == IF shape = <<>> THEN 1 ELSE Head(shape) * Prod(Tail(shape))

\* x.size
Size(t) == Prod(t.shape)

Rank(t) == Len(t.shape)

\* 0-based flat offset of the 0-based multi-index idx in an array of this shape
RECURSIVE Flat(_, _)
Flat(shape, idx) ==
    IF shape = <<>> THEN 0
    ELSE idx[1] * Prod(Tail(shape)) + Flat(Tail(shape), Tail(idx))

\* the 0-based multi-index of the 0-based flat offset k
RECURSIVE Unflat(_, _)
Unflat(shape, k) ==
    IF shape = <<>> THEN <<>>
    ELSE LET p == Prod(Tail(shape))
         IN <<k \div p>> \o Unflat(Tail(shape), k % p)

\* element of t at the 0-based multi-index idx
At(t, idx) == t.data[Flat(t.shape, idx) + 1]

\* numpy.zeros(shape)
Zeros(shape) == [shape |-> shape, data |-> [k \in 1..Prod(shape) |-> Zero]]

\* numpy.arange(base, base + size).reshape(shape): the input tensors
Arange(shape, base) ==
    [shape |-> shape, data |-> [k \in 1..Prod(shape) |-> Num(base + k - 1)]]

\* numpy.ravel(x): the elements in row-major order, as a vector
RavelT(t) == [shape |-> <<Size(t)>>, data |-> t.data]

\* numpy.reshape(v, shape): fails unless the sizes agree
CanReshape(v, shape) == Size(v) = Prod(shape)

Reshape(v, shape) == [shape |-> shape, data |-> v.data]

\* v[i:j] of a vector, with Python's clamping of the bounds (0 <= i <= j)
SliceVec(v, i, j) ==
    LET n == Len(v.data)
        lo == Min2(i, n)
        hi == Min2(j, n)
    IN [shape |-> <<hi - lo>>, data |-> [k \in 1..(hi - lo) |-> v.data[lo + k]]]

\* numpy.concatenate of a non-empty list of vectors
RECURSIVE ConcatData(_)
ConcatData(vs) == IF vs = <<>> THEN <<>> ELSE Head(vs).data \o ConcatData(Tail(vs))

Concatenate(vs) == [shape |-> <<Len(ConcatData(vs))>>, data |-> ConcatData(vs)]

(***************************************************************************)
(* Outcome of a call: a returned value, or the exception it raised.        *)
(***************************************************************************)
Ok(v) == [ok |-> TRUE, val |-> v]

Raise(e) == [ok |-> FALSE, val |-> e]

(***************************************************************************)
(* Elementwise arithmetic of numpy arrays, with numpy's broadcasting: the  *)
(* shapes are aligned at their last axis and an axis of size 1 stretches.  *)
(***************************************************************************)
PadLeft(shape, r) ==
    [i \in 1..r |-> IF i <= r - Len(shape) THEN 1 ELSE shape[i - (r - Len(shape))]]

CanBroadcast(s1, s2) ==
    LET r == Max2(Len(s1), Len(s2))
        p1 == PadLeft(s1, r)
        p2 == PadLeft(s2, r)
    IN \A i \in 1..r : p1[i] = p2[i] \/ p1[i] = 1 \/ p2[i] = 1

BroadcastShape(s1, s2) ==
    LET r == Max2(Len(s1), Len(s2))
        p1 == PadLeft(s1, r)
        p2 == PadLeft(s2, r)
    IN [i \in 1..r |-> IF p1[i] = 1 THEN p2[i] ELSE p1[i]]

\* element of t, broadcast to a shape of rank Len(idx), at multi-index idx
BAt(t, idx) ==
    LET off == Len(idx) - Rank(t)
    IN At(t, [j \in 1..Rank(t) |-> IF t.shape[j] = 1 THEN 0 ELSE idx[off + j]])

\* the element operators *, /, -, +
NOp(op, x, y) ==
    CASE op = "mul" -> NMul(x, y)
      [] op = "div" -> NDiv(x, y)
      [] op = "sub" -> NSub(x, y)
      [] op = "add" -> NAdd(x, y)

\* a (op) b on two arrays whose shapes broadcast
BinOp(op, a, b) ==
    LET s == BroadcastShape(a.shape, b.shape)
    IN [shape |-> s,
        data |-> [k \in 1..Prod(s) |->
                    NOp(op, BAt(a, Unflat(s, k - 1)), BAt(b, Unflat(s, k - 1)))]]

\* the 0-d array of a Python scalar
Scalar(x) == [shape |-> <<>>, data |-> <<x>>]

(***************************************************************************)
(* weights.py: mul, div, scale, add, sub, minimum, maximum, counter.       *)
(* zip() stops at the shorter of its arguments.                            *)
(***************************************************************************)
\* [a (op) b for a, b in zip(weights_a, weights_b)]
ZipWith(op, weights_a, weights_b) ==
    LET n == Min2(Len(weights_a), Len(weights_b))
    IN IF \A i \in 1..n : CanBroadcast(weights_a[i].shape, weights_b[i].shape)
       THEN Ok([i \in 1..n |-> BinOp(op, weights_a[i], weights_b[i])])
       ELSE Raise("ValueError")

mul(weights_a, weights_b) == ZipWith("mul", weights_a, weights_b)

div(weights_a, weights_b) == ZipWith("div", weights_a, weights_b)

sub(weights_a, weights_b) == ZipWith("sub", weights_a, weights_b)

scale(weights, s) ==
    Ok([i \in 1..Len(weights) |->
          [shape |-> weights[i].shape,
           data |-> [k \in 1..Len(weights[i].data) |-> NMul(weights[i].data[k], s)]]])

\* sum(xs): 0 + xs[0] + xs[1] + ...
RECURSIVE SumFrom(_, _)
SumFrom(acc, xs) ==
    IF xs = <<>> THEN Ok(acc)
    ELSE IF CanBroadcast(acc.shape, Head(xs).shape)
         THEN SumFrom(BinOp("add", acc, Head(xs)), Tail(xs))
         ELSE Raise("ValueError")

\* the length of zip(*trees): that of the shortest tree, 0 for no tree
RECURSIVE ZipLen(_)
ZipLen(trees) ==
    IF trees = <<>> THEN 0
    ELSE IF Len(trees) = 1 THEN Len(trees[1])
    ELSE Min2(Len(Head(trees)), ZipLen(Tail(trees)))

\* add(*weights): [sum(xs) for xs in zip(*weights)]
add(trees) ==
    LET n == ZipLen(trees)
        col(i) == [j \in 1..Len(trees) |-> trees[j][i]]
        sums == [i \in 1..n |-> SumFrom(Scalar(Zero), col(i))]
    IN IF \A i \in 1..n : sums[i].ok
       THEN Ok([i \in 1..n |-> sums[i].val])
       ELSE Raise("ValueError")

minimum(weights, val) ==
    Ok([i \in 1..Len(weights) |->
          [shape |-> weights[i].shape,
           data |-> [k \in 1..Len(weights[i].data) |-> NMin(weights[i].data[k], val)]]])

maximum(weights, val) ==
    Ok([i \in 1..Len(weights) |->
          [shape |-> weights[i].shape,
           data |-> [k \in 1..Len(weights[i].data) |-> NMax(weights[i].data[k], val)]]])

\* (w != 0).astype(w.dtype)
counter(weights) ==
    Ok([i \in 1..Len(weights) |->
          [shape |-> weights[i].shape,
           data |-> [k \in 1..Len(weights[i].data) |->
                       IF weights[i].data[k] = Zero THEN Zero ELSE One]]])

(***************************************************************************)
(* weights.py: ravel, unravel, unraveller.                                 *)
(***************************************************************************)
\* numpy.concatenate refuses an empty list of arrays
ravel(weights) ==
    IF weights = <<>> THEN Raise("ValueError")
    ELSE Ok(Concatenate([i \in 1..Len(weights) |-> RavelT(weights[i])]))

\* mutant of unraveller: len(x), the size of the first axis, for x.size
unravellerLen(weights) ==
    [i \in 1..Len(weights) |-> [shape |-> weights[i].shape, length |-> weights[i].shape[1]]]

\* [(x.shape, x.size) for x in weights]
unraveller(weights) ==
    [i \in 1..Len(weights) |-> [shape |-> weights[i].shape, length |-> Size(weights[i])]]

\* the loop of unravel: i is the running offset, acc the list built so far
RECURSIVE UnravelLoop(_, _, _, _)
UnravelLoop(vec, skeleton, i, acc) ==
    IF skeleton = <<>> THEN Ok(acc)
    ELSE LET e == Head(skeleton)
             piece == SliceVec(vec, i, i + e.length)
         IN IF CanReshape(piece, e.shape)
            THEN UnravelLoop(vec, Tail(skeleton), i + e.length,
                             Append(acc, Reshape(piece, e.shape)))
            ELSE Raise("ValueError")

unravel(vec, skeleton) == UnravelLoop(vec, skeleton, 0, <<>>)

(***************************************************************************)
(* weights.py: skeleton, partition, expand.  A named skeleton is a Python  *)
(* dict: here the sequence of its items [name, index, shape] in insertion  *)
(* order; index is 0-based as in the code.                                 *)
(***************************************************************************)
\* {w.name: {'index': i, 'shape': w.numpy().shape} for i, w in enumerate(model.weights)}
skeleton(names, weights) ==
    [i \in 1..Len(weights) |-> [name |-> names[i], index |-> i - 1, shape |-> weights[i].shape]]

\* k in skel
Has(skel, k) == \E i \in 1..Len(skel) : skel[i].name = k

\* skel[k]
Get(skel, k) == skel[CHOOSE i \in 1..Len(skel) : skel[i].name = k]

\* x[tuple(slice(i) for i in shape)]: more slices than axes is an IndexError
CanSlice(t, shape) == Len(shape) <= Rank(t)

\* the leading sub-block; slice(i) stops at the end of a shorter axis
SliceLead(t, shape) ==
    LET ns == [j \in 1..Rank(t) |->
                 IF j <= Len(shape) THEN Min2(t.shape[j], shape[j]) ELSE t.shape[j]]
    IN [shape |-> ns, data |-> [k \in 1..Prod(ns) |-> At(t, Unflat(ns, k - 1))]]

\* the items of skel_to whose name is in skel_from, in skel_to's order
RECURSIVE Shared(_, _)
Shared(skel_to, skel_from) ==
    IF skel_to = <<>> THEN <<>>
    ELSE (IF Has(skel_from, Head(skel_to).name) THEN <<Head(skel_to)>> ELSE <<>>)
         \o Shared(Tail(skel_to), skel_from)

partition(weights, skel_from, skel_to) ==
    LET items == Shared(skel_to, skel_from)
        src(i) == Get(skel_from, items[i].name).index
    IN IF \E i \in 1..Len(items) : src(i) >= Len(weights)
       THEN Raise("IndexError")
       ELSE IF \E i \in 1..Len(items) : ~CanSlice(weights[src(i) + 1], items[i].shape)
       THEN Raise("IndexError")
       ELSE Ok([i \in 1..Len(items) |-> SliceLead(weights[src(i) + 1], items[i].shape)])

\* the pad widths expand hands to numpy.pad: (0, b - ws) per zipped axis
PadWidths(t, shape) ==
    [j \in 1..Min2(Len(shape), Rank(t)) |-> shape[j] - t.shape[j]]

\* mutant of CanPad: negative widths are let through
CanPadUnchecked(t, shape) ==
    LET w == PadWidths(t, shape)
    IN Len(w) >= 1 /\ (Len(w) = 1 \/ Len(w) = Rank(t))

\* numpy.pad's reading of the widths: one pair serves every axis, several must
\* be one per axis, and none may be negative
CanPad(t, shape) ==
    LET w == PadWidths(t, shape)
    IN /\ Len(w) >= 1
       /\ \A j \in 1..Len(w) : w[j] >= 0
       /\ (Len(w) = 1 \/ Len(w) = Rank(t))

\* numpy.pad(t, widths): zeros appended at the trailing edge of every axis
Pad(t, shape) ==
    LET w == PadWidths(t, shape)
        ns == [j \in 1..Rank(t) |-> t.shape[j] + (IF Len(w) = 1 THEN w[1] ELSE w[j])]
        el(idx) == IF \A j \in 1..Rank(t) : idx[j] < t.shape[j] THEN At(t, idx) ELSE Zero
    IN [shape |-> ns, data |-> [k \in 1..Prod(ns) |-> el(Unflat(ns, k - 1))]]

\* mutant of Insert: list.append(x) for list.insert(i, x)
InsertAppend(w, i, x) == Append(w, x)

\* list.insert(i, x): an index past the end appends
Insert(w, i, x) ==
    LET at == Min2(i, Len(w))
    IN SubSeq(w, 1, at) \o <<x>> \o SubSeq(w, at + 1, Len(w))

\* the loop of expand over skel_to.items(); w is the list as mutated so far.
\* An exception leaves the list as the earlier iterations made it.
RECURSIVE ExpandLoop(_, _, _)
ExpandLoop(w, skel_from, items) ==
    IF items = <<>> THEN [ok |-> TRUE, val |-> w, err |-> "none"]
    ELSE LET v == Head(items)
         IN IF Has(skel_from, v.name)
            THEN IF v.index >= Len(w)
                 THEN [ok |-> FALSE, val |-> w, err |-> "IndexError"]
                 ELSE IF ~CanPad(w[v.index + 1], v.shape)
                 THEN [ok |-> FALSE, val |-> w, err |-> "ValueError"]
                 ELSE ExpandLoop([w EXCEPT ![v.index + 1] = Pad(w[v.index + 1], v.shape)],
                                 skel_from, Tail(items))
            ELSE ExpandLoop(Insert(w, v.index, Zeros(v.shape)), skel_from, Tail(items))

expand(weights, skel_from, skel_to) == ExpandLoop(weights, skel_from, skel_to)

(***************************************************************************)
(* Inputs: the weights of two models.  Tensor i of a tree holds the        *)
(* consecutive integers that follow those of tensor i-1, starting at base. *)
(***************************************************************************)
Dims == 1..MaxDim

ShapesOfRank(r) == [1..r -> Dims]

Shapes == ShapesOfRank(1) \cup ShapesOfRank(2)

ShapeLists(lo, hi) == UNION {[1..k -> Shapes] : k \in lo..hi}

RECURSIVE SizeBefore(_, _)
SizeBefore(shapes, i) == IF i <= 1 THEN 0 ELSE Prod(shapes[i - 1]) + SizeBefore(shapes, i - 1)

TreeOf(shapes, base) ==
    [i \in 1..Len(shapes) |-> Arange(shapes[i], base + SizeBefore(shapes, i))]

\* the names of a sub-model: some of the names 1..n, in the model's order
SubNames(n) ==
    {s \in UNION {[1..k -> 1..n] : k \in 0..n} : \A i, j \in 1..Len(s) : i < j => s[i] < s[j]}

\* call: left = calls still allowed, op/args = the last call and the ids of its
\* arguments, olds/tags = every object's value and origin before the call,
\* skels = the two skeletons before the call, ret = the id of the returned
\* object (0 if none), raised = the exception ("none" if it returned)
NoCall(budget) ==
    [left |-> budget, op |-> "none", args |-> <<>>, olds |-> <<>>, tags |-> <<>>,
     skels |-> <<>>, ret |-> 0, raised |-> "none"]

\* an object: from = what made it (an input, or the function that returned or
\* last mutated it), src = the ids of that call's arguments
Obj(kind, val, from, src) == [kind |-> kind, val |-> val, from |-> from, src |-> src]

IdleData ==
    /\ lda = [pc |-> "idle"]
    /\ ds = <<>>
    /\ gens = <<>>
    /\ iters = <<>>
    /\ batch = <<>>
    /\ rands = <<>>

\* weights algebra: two arbitrary trees and a flat vector
Init ==
    /\ \E sa \in ShapeLists(0, MaxLen), sb \in ShapeLists(0, MaxLen), n \in 0..MaxVec :
         /\ heap = <<Obj("tree", TreeOf(sa, 0), "global", <<>>),
                     Obj("tree", TreeOf(sb, 0), "local", <<>>),
                     Obj("vector", Arange(<<n>>, 0), "input", <<>>)>>
         /\ skel_g = skeleton([i \in 1..Len(sa) |-> i], TreeOf(sa, 0))
         /\ skel_l = skeleton([i \in 1..Len(sb) |-> i], TreeOf(sb, 0))
    /\ call = NoCall(MaxCalls)
    /\ IdleData

(***************************************************************************)
(* Calls of the weights module on the objects of the heap.                 *)
(***************************************************************************)
Ids == DOMAIN heap

TreeIds == {i \in Ids : heap[i].kind = "tree"}

VecIds == {i \in Ids : heap[i].kind = "vector"}

NewId == Len(heap) + 1

Called(op, args, ret, raised) ==
    [left |-> call.left - 1, op |-> op, args |-> args,
     olds |-> [i \in 1..Len(heap) |-> heap[i].val],
     tags |-> [i \in 1..Len(heap) |-> heap[i].from],
     skels |-> <<skel_g, skel_l>>,
     ret |-> ret, raised |-> raised]

\* a function that builds its result in a fresh object, or raises
Returns(op, kind, args, r) ==
    /\ call.left > 0
    /\ IF r.ok
       THEN /\ heap' = Append(heap, Obj(kind, r.val, op, args))
            /\ call' = Called(op, args, NewId, "none")
       ELSE /\ heap' = heap
            /\ call' = Called(op, args, 0, r.val)
    /\ UNCHANGED <<skel_g, skel_l, lda, ds, gens, iters, batch, rands>>

ScalarArgs == {Num(-1), Num(2)}

MulCall == \E a, b \in TreeIds : Returns("mul", "tree", <<a, b>>, mul(heap[a].val, heap[b].val))

DivCall == \E a, b \in TreeIds : Returns("div", "tree", <<a, b>>, div(heap[a].val, heap[b].val))

SubCall == \E a, b \in TreeIds : Returns("sub", "tree", <<a, b>>, sub(heap[a].val, heap[b].val))

AddCall ==
    \E ts \in UNION {[1..k -> TreeIds] : k \in 1..2} :
        Returns("add", "tree", ts, add([j \in 1..Len(ts) |-> heap[ts[j]].val]))

ScaleCall ==
    \E a \in TreeIds, x \in ScalarArgs : Returns("scale", "tree", <<a>>, scale(heap[a].val, x))

MinimumCall ==
    \E a \in TreeIds, x \in ScalarArgs : Returns("minimum", "tree", <<a>>, minimum(heap[a].val, x))

MaximumCall ==
    \E a \in TreeIds, x \in ScalarArgs : Returns("maximum", "tree", <<a>>, maximum(heap[a].val, x))

CounterCall == \E a \in TreeIds : Returns("counter", "tree", <<a>>, counter(heap[a].val))

RavelCall == \E a \in TreeIds : Returns("ravel", "vector", <<a>>, ravel(heap[a].val))

\* unravel(vec, unraveller(tree))
UnravelCall ==
    \E v \in VecIds, a \in TreeIds :
        Returns("unravel", "tree", <<v, a>>, unravel(heap[v].val, unraveller(heap[a].val)))

\* partition(tree, global skeleton, local skeleton): the server downsizes
PartitionCall ==
    \E a \in TreeIds : Returns("partition", "tree", <<a>>, partition(heap[a].val, skel_g, skel_l))

\* mutant of ExpandCall: expand works on a copy of the list and returns the copy
ExpandCallCopy ==
    \E a \in TreeIds :
        LET r == expand(heap[a].val, skel_l, skel_g)
        IN Returns("expand", "tree", <<a>>, IF r.ok THEN Ok(r.val) ELSE Raise(r.err))

\* expand(tree, local skeleton, global skeleton): mutates the list it is given
\* and returns it
ExpandCall ==
    \E a \in TreeIds :
        LET r == expand(heap[a].val, skel_l, skel_g)
        IN /\ call.left > 0
           /\ heap' = [heap EXCEPT ![a] = Obj("tree", r.val, IF r.ok THEN "expand" ELSE "broken",
                                              heap[a].src)]
           /\ call' = Called("expand", <<a>>, IF r.ok THEN a ELSE 0, r.err)
           /\ UNCHANGED <<skel_g, skel_l, lda, ds, gens, iters, batch, rands>>

Next ==
    \/ MulCall
    \/ DivCall
    \/ SubCall
    \/ AddCall
    \/ ScaleCall
    \/ MinimumCall
    \/ MaximumCall
    \/ CounterCall
    \/ RavelCall
    \/ UnravelCall
    \/ PartitionCall
    \/ ExpandCall

Spec == Init /\ [][Next]_vars

(***************************************************************************)
(* ravel / unravel pipeline: two trees, zero-size tensors included.        *)
(***************************************************************************)
ShapesZ == [1..1 -> 0..MaxDim] \cup [1..2 -> 0..MaxDim]

ShapeListsZ == UNION {[1..k -> ShapesZ] : k \in 0..MaxLen}

InitRavel ==
    /\ \E sa \in ShapeListsZ, sb \in ShapeListsZ :
         /\ heap = <<Obj("tree", TreeOf(sa, 0), "global", <<>>),
                     Obj("tree", TreeOf(sb, 0), "local", <<>>)>>
         /\ skel_g = skeleton([i \in 1..Len(sa) |-> i], TreeOf(sa, 0))
         /\ skel_l = skeleton([i \in 1..Len(sb) |-> i], TreeOf(sb, 0))
    /\ call = NoCall(MaxPipe)
    /\ IdleData

NextRavel ==
    \/ RavelCall
    \/ UnravelCall

SpecRavel == InitRavel /\ [][NextRavel]_vars

(***************************************************************************)
(* partition / expand pipeline: the global model and a local sub-model     *)
(* holding some of its tensors, in the same order and of the same ranks.   *)
(***************************************************************************)
InitPE ==
    /\ \E sa \in ShapeLists(1, MaxNames) :
         \E names \in SubNames(Len(sa)) :
           \E sb \in {x \in [1..Len(names) -> Shapes] :
                        \A i \in 1..Len(names) : Len(x[i]) = Len(sa[names[i]])} :
             /\ heap = <<Obj("tree", TreeOf(sa, 1), "global", <<>>),
                         Obj("tree", TreeOf(sb, 1), "local", <<>>)>>
             /\ skel_g = skeleton([i \in 1..Len(sa) |-> i], TreeOf(sa, 1))
             /\ skel_l = skeleton(names, TreeOf(sb, 1))
    /\ call = NoCall(MaxPipe)
    /\ IdleData

NextPE ==
    \/ PartitionCall
    \/ ExpandCall

SpecPE == InitPE /\ [][NextPE]_vars

(***************************************************************************)
(* Properties of the weights module.                                       *)
(***************************************************************************)
ShapesOf(tree) == [i \in 1..Len(tree) |-> tree[i].shape]

\* the 0-based multi-indices of an array of this shape
Indices(shape) == {Unflat(shape, k) : k \in 0..(Prod(shape) - 1)}

RECURSIVE SumLengths(_)
SumLengths(skel) ==
    IF skel = <<>> THEN 0 ELSE Head(skel).length + SumLengths(Tail(skel))

\* the last call was unravel(ravel(T), unraveller(T)) for a tree T
RoundTrip ==
    /\ call.op = "unravel"
    /\ heap[call.args[1]].from = "ravel"
    /\ heap[call.args[1]].src = <<call.args[2]>>

\* C1: round trip.  unravel(ravel(T), unraveller(T)) returns a tree of T's
\* length whose i-th tensor has exactly T[i]'s shape and values, for every tree
\* that ravel accepts (zero-size tensors included).
C1_RoundTrip ==
    RoundTrip =>
        LET T == call.olds[call.args[2]]
        IN /\ call.raised = "none"
           /\ Len(heap[call.ret].val) = Len(T)
           /\ \A i \in 1..Len(T) :
                /\ heap[call.ret].val[i].shape = T[i].shape
                /\ heap[call.ret].val[i].data = T[i].data

\* a round trip of a two-tensor tree with a zero-size and a rank-2 tensor
C1_Witness ==
    /\ RoundTrip
    /\ call.raised = "none"
    /\ Len(heap[call.ret].val) = 2
    /\ \E i \in 1..2 : Size(heap[call.ret].val[i]) = 0
    /\ \E i \in 1..2 : Rank(heap[call.ret].val[i]) = 2 /\ Size(heap[call.ret].val[i]) >= 2

\* C6 as claimed: unravel raises whenever the skeleton's lengths do not sum
\* to the length of the vector, be it more or fewer elements than the vector
\* holds, and returns no tree.
C6_UnravelRejectsMismatch ==
    (/\ call.op = "unravel"
     /\ SumLengths(unraveller(call.olds[call.args[2]])) # Len(call.olds[call.args[1]].data))
        => call.raised # "none" /\ call.ret = 0

\* C5 as claimed: add, sub, mul and div of two trees that differ in length,
\* or in the shape of the tensors at some position, raise and return no tree.
C5_ArithmeticRejectsMismatch ==
    (/\ call.op \in {"add", "sub", "mul", "div"}
     /\ Len(call.args) = 2
     /\ ShapesOf(call.olds[call.args[1]]) # ShapesOf(call.olds[call.args[2]]))
        => call.raised # "none" /\ call.ret = 0

PureOps ==
    {"add", "sub", "mul", "div", "scale", "minimum", "maximum", "counter",
     "partition", "ravel", "unravel"}

\* the names of skel_g that skel_l lacks
Absent == {i \in 1..Len(skel_g) : ~Has(skel_l, skel_g[i].name)}

\* C8: purity.  Every function but expand leaves all its inputs (every
\* object there was) as they were and returns a new object; expand returns the
\* very list it was given, with a tensor inserted for each name the local
\* skeleton lacks, and changes neither skeleton nor any other object.
C8_Purity ==
    /\ call.op \in PureOps =>
         /\ \A i \in 1..Len(call.olds) : heap[i].val = call.olds[i]
         /\ call.raised = "none" => call.ret = Len(call.olds) + 1 /\ Len(heap) = call.ret
         /\ call.skels = <<skel_g, skel_l>>
    /\ (call.op = "expand" /\ call.raised = "none") =>
         /\ call.ret = call.args[1]
         /\ Len(heap) = Len(call.olds)
         /\ Len(heap[call.ret].val) = Len(call.olds[call.ret]) + Cardinality(Absent)
         /\ \A i \in 1..Len(call.olds) : i # call.ret => heap[i].val = call.olds[i]
         /\ call.skels = <<skel_g, skel_l>>

\* expand returned its own argument, which it made longer
C8_Witness ==
    /\ call.op = "expand"
    /\ call.raised = "none"
    /\ call.ret = call.args[1]
    /\ Len(heap[call.ret].val) > Len(call.olds[call.ret])
    /\ heap[call.ret].val # call.olds[call.ret]

\* every shape of the local skeleton is at most the global one, axis by axis
LocalFits ==
    \A i \in 1..Len(skel_l) :
        /\ Has(skel_g, skel_l[i].name)
        /\ \A j \in 1..Len(skel_l[i].shape) :
             skel_l[i].shape[j] <= Get(skel_g, skel_l[i].name).shape[j]

\* the last call was expand(partition(G, Sg, Sl), Sl, Sg), G the global tree
Pipeline ==
    /\ call.op = "expand"
    /\ call.tags[call.args[1]] = "partition"
    /\ heap[call.args[1]].src = <<1>>
    /\ heap[1].from = "global"

\* C2: for local shapes within the global ones, expand(partition(G, Sg, Sl),
\* Sl, Sg) returns one tensor per name of Sg, at its index and of its shape:
\* G's leading sub-block of the local shape, zero beyond it, and all zeros
\* for a name the local skeleton lacks, wherever that name sits in Sg.
C2_PartitionExpand ==
    (Pipeline /\ LocalFits) =>
        /\ call.raised = "none"
        /\ Len(heap[call.ret].val) = Len(skel_g)
        /\ \A i \in 1..Len(skel_g) :
             LET e == skel_g[i]
                 t == heap[call.ret].val[e.index + 1]
                 G == heap[1].val[e.index + 1]
             IN /\ t.shape = e.shape
                /\ \A idx \in Indices(e.shape) :
                     At(t, idx) =
                        IF /\ Has(skel_l, e.name)
                           /\ \A j \in 1..Len(idx) : idx[j] < Get(skel_l, e.name).shape[j]
                        THEN At(G, idx)
                        ELSE Zero

\* the pipeline on three tensors, the middle one absent from the local model
\* and a shared one strictly smaller there
C2_Witness ==
    /\ Pipeline
    /\ LocalFits
    /\ call.raised = "none"
    /\ Len(skel_g) = 3
    /\ Has(skel_l, 1) /\ ~Has(skel_l, 2) /\ Has(skel_l, 3)
    /\ Get(skel_l, 3).shape # Get(skel_g, 3).shape
    /\ Len(Get(skel_g, 3).shape) = 2

\* the same with the first name absent
C2_WitnessStart ==
    /\ Pipeline /\ LocalFits /\ call.raised = "none"
    /\ Len(skel_g) = 3 /\ ~Has(skel_l, 1) /\ Has(skel_l, 2) /\ Has(skel_l, 3)

\* the same with the last name absent
C2_WitnessEnd ==
    /\ Pipeline /\ LocalFits /\ call.raised = "none"
    /\ Len(skel_g) = 3 /\ Has(skel_l, 1) /\ Has(skel_l, 2) /\ ~Has(skel_l, 3)

\* C7 as claimed: neither partition of the global tree nor expand of a local
\* tree raises, whatever the shapes of the two skeletons (of matching ranks).
C7_NeverRaises ==
    (\/ call.op = "partition" /\ call.tags[call.args[1]] = "global"
     \/ call.op = "expand" /\ call.tags[call.args[1]] \in {"local", "partition"})
        => call.raised = "none"

\* the local tree the last call was given has no tensor larger than the global
\* shape of its name along any axis
TreeFits(tree) ==
    \A i \in 1..Len(skel_l) :
        \A j \in 1..Rank(tree[skel_l[i].index + 1]) :
            tree[skel_l[i].index + 1].shape[j] <= Get(skel_g, skel_l[i].name).shape[j]

\* C7 amended: partition of the global tree never raises: it returns, per
\* shared name, the leading sub-block cut to the smaller of the two sizes on
\* each axis.  expand of the result of partition never raises either.  expand
\* of a local tree returns the tree padded to the global shapes when no local
\* tensor is larger than its global shape on any axis, and raises ValueError
\* (a negative pad width) when one is.
C7_RaisesOnlyOnLargerLocal ==
    /\ (call.op = "partition" /\ call.tags[call.args[1]] = "global") =>
         /\ call.raised = "none"
         /\ Len(heap[call.ret].val) = Len(skel_l)
         /\ \A i \in 1..Len(skel_l) :
              LET t == heap[call.ret].val[i]
                  G == call.olds[1][Get(skel_g, skel_l[i].name).index + 1]
              IN /\ t.shape = [j \in 1..Rank(G) |-> Min2(G.shape[j], skel_l[i].shape[j])]
                 /\ \A idx \in Indices(t.shape) : At(t, idx) = At(G, idx)
    /\ (call.op = "expand" /\ call.tags[call.args[1]] = "partition"
          /\ heap[call.args[1]].src = <<1>> /\ heap[1].from = "global") =>
         call.raised = "none"
    /\ (call.op = "expand" /\ call.tags[call.args[1]] = "local") =>
         /\ call.raised = "none" <=> TreeFits(call.olds[call.args[1]])
         /\ call.raised \in {"none", "ValueError"}
         /\ call.raised = "none" =>
              ShapesOf(heap[call.ret].val) = [i \in 1..Len(skel_g) |-> skel_g[i].shape]

\* expand of a local tree with a tensor larger than its global shape raised
C7_Witness ==
    /\ call.op = "expand"
    /\ call.tags[call.args[1]] = "local"
    /\ call.raised = "ValueError"
    /\ ~TreeFits(call.olds[call.args[1]])
    /\ Len(call.olds[call.args[1]]) = 2

\* partition cut a tensor to a local shape larger than the global one on one
\* axis and smaller on the other
C7_WitnessPartition ==
    /\ call.op = "partition"
    /\ call.tags[call.args[1]] = "global"
    /\ call.raised = "none"
    /\ \E i \in 1..Len(skel_l) :
         LET g == Get(skel_g, skel_l[i].name).shape
         IN /\ Len(g) = 2
            /\ skel_l[i].shape[1] > g[1]
            /\ skel_l[i].shape[2] < g[2]
            /\ heap[call.ret].val[i].shape = <<g[1], skel_l[i].shape[2]>>

(***************************************************************************)
(* main.py: lda, the Dirichlet partitioner.  A row of proportions is drawn *)
(* as integer weights w with w[1] + ... + w[k] = PropDen: client i's share *)
(* is w[i] / PropDen.  Sample indices are 0-based as in the code.          *)
(***************************************************************************)
RECURSIVE SumSeq(_)
SumSeq(xs) == IF xs = <<>> THEN 0 ELSE Head(xs) + SumSeq(Tail(xs))

\* rng.dirichlet(np.repeat(alpha, k)): the vectors of k shares that sum to 1
Dirichlet(k) == {w \in [1..k -> 0..PropDen] : SumSeq(w) = PropDen}

\* np.cumsum(w)[i]
CumSum(w, i) == SumSeq(SubSeq(w, 1, i))

\* mutant of RoundHalfEven: astype(int) without np.round truncates
RoundDown(num, den) == num \div den

\* np.round(num / den) for num >= 0: to the nearest integer, a half to the even one
RoundHalfEven(num, den) ==
    LET q == num \div den
        r == num % den
    IN IF 2 * r < den THEN q
       ELSE IF 2 * r > den THEN q + 1
       ELSE IF q % 2 = 0 THEN q ELSE q + 1

\* np.where(Y == c)[0]: the indices labelled c, ascending
RECURSIVE WhereFrom(_, _, _)
WhereFrom(Y, c, i) ==
    IF i > Len(Y) THEN <<>>
    ELSE (IF Y[i] = c THEN <<i - 1>> ELSE <<>>) \o WhereFrom(Y, c, i + 1)

Where(Y, c) == WhereFrom(Y, c, 1)

\* the orders rng.shuffle may leave a in
Shuffles(a) ==
    {[i \in 1..Len(a) |-> a[p[i]]] :
        p \in {q \in [1..Len(a) -> 1..Len(a)] : \A i, j \in 1..Len(a) : q[i] = q[j] => i = j}}

\* mutant of SliceSeq: the end index is taken inclusive
SliceSeqInclusive(a, st, en) ==
    LET lo == Min2(st, Len(a))
        hi == Min2(en + 1, Len(a))
    IN IF hi <= lo THEN <<>> ELSE SubSeq(a, lo + 1, hi)

\* a[st:en]
SliceSeq(a, st, en) ==
    LET lo == Min2(st, Len(a))
        hi == Min2(en, Len(a))
    IN IF hi <= lo THEN <<>> ELSE SubSeq(a, lo + 1, hi)

\* np.split(ary, indices): ary[0:i1], ary[i1:i2], ..., ary[ik:]
Split(ary, indices) ==
    LET dp == <<0>> \o indices \o <<Len(ary)>>
    IN [i \in 1..(Len(indices) + 1) |-> SliceSeq(ary, dp[i], dp[i + 1])]

\* np.round(np.cumsum(proportions[c]) * len(idx_c)).astype(int)[:-1]
Boundaries(w, n) == [i \in 1..(Len(w) - 1) |-> RoundHalfEven(CumSum(w, i) * n, PropDen)]

IdleWeights ==
    /\ heap = <<>>
    /\ skel_g = <<>>
    /\ skel_l = <<>>
    /\ call = NoCall(0)

InitLda ==
    /\ \E n \in 0..MaxSamples, k \in 1..MaxClients, C \in 1..MaxClasses :
         \E Y \in [1..n -> 0..(C - 1)] :
            lda = [pc |-> "start", Y |-> Y, nclients |-> k, nclasses |-> C,
                   proportions |-> <<>>, c |-> 0, distribution |-> <<>>,
                   before |-> <<>>, idx_c |-> <<>>, dists_c |-> <<>>]
    /\ ds = <<>>
    /\ gens = <<>>
    /\ iters = <<>>
    /\ batch = <<>>
    /\ rands = <<>>
    /\ IdleWeights

\* lines 107-108: the empty lists and the Dirichlet draw, one row per class
LdaStart ==
    /\ lda.pc = "start"
    /\ \E props \in [1..lda.nclasses -> Dirichlet(lda.nclients)] :
         lda' = [lda EXCEPT !.pc = "loop", !.proportions = props,
                            !.distribution = [i \in 1..lda.nclients |-> <<>>]]
    /\ UNCHANGED <<heap, skel_g, skel_l, call, ds, gens, iters, batch, rands>>

\* lines 109-113: one turn of the loop over the classes.  before, idx_c and
\* dists_c keep what the turn started from, shuffled and cut.
LdaClass ==
    /\ lda.pc = "loop"
    /\ lda.c < lda.nclasses
    /\ \E idx_c \in Shuffles(Where(lda.Y, lda.c)) :
         LET dists_c == Split(idx_c, Boundaries(lda.proportions[lda.c + 1], Len(idx_c)))
         IN lda' = [lda EXCEPT !.c = lda.c + 1,
                               !.before = lda.distribution,
                               !.idx_c = idx_c,
                               !.dists_c = dists_c,
                               !.distribution =
                                   [i \in 1..Len(dists_c) |-> lda.distribution[i] \o dists_c[i]]]
    /\ UNCHANGED <<heap, skel_g, skel_l, call, ds, gens, iters, batch, rands>>

\* line 114
LdaReturn ==
    /\ lda.pc = "loop"
    /\ lda.c = lda.nclasses
    /\ lda' = [lda EXCEPT !.pc = "done"]
    /\ UNCHANGED <<heap, skel_g, skel_l, call, ds, gens, iters, batch, rands>>

NextLda ==
    \/ LdaStart
    \/ LdaClass
    \/ LdaReturn

SpecLda == InitLda /\ [][NextLda]_vars

(***************************************************************************)
(* Properties of lda.                                                      *)
(***************************************************************************)
\* the (client, position) pairs of the lists built so far
Slots ==
    UNION {{<<i, p>> : p \in 1..Len(lda.distribution[i])} : i \in 1..Len(lda.distribution)}

\* C3: coverage.  Once class c has been processed, the clients' lists hold
\* every index labelled c, and no index is held twice, by two clients or by
\* one; this holds after each class, not only when lda returns.
C3_Coverage ==
    lda.pc \in {"loop", "done"} =>
        /\ \A s, t \in Slots :
             lda.distribution[s[1]][s[2]] = lda.distribution[t[1]][t[2]] => s = t
        /\ \A cls \in 0..(lda.c - 1) :
             {lda.distribution[s[1]][s[2]] : s \in {x \in Slots : lda.Y[lda.distribution[x[1]][x[2]] + 1] = cls}}
                = {i \in 0..(Len(lda.Y) - 1) : lda.Y[i + 1] = cls}

\* lda returned: two classes, both with samples, and a client left without
\* any sample of class 0
C3_Witness ==
    /\ lda.pc = "done"
    /\ lda.nclasses = 2
    /\ lda.nclients >= 2
    /\ \E i, j \in 1..Len(lda.Y) : lda.Y[i] = 0 /\ lda.Y[j] = 1
    /\ \E i \in 1..lda.nclients :
         \A p \in 1..Len(lda.distribution[i]) : lda.Y[lda.distribution[i][p] + 1] # 0
    /\ Len(lda.Y) = MaxSamples

RECURSIVE Flatten(_)
Flatten(xs) == IF xs = <<>> THEN <<>> ELSE Head(xs) \o Flatten(Tail(xs))

\* the number of indices the first i chunks hold
UpTo(chunks, i) == Len(Flatten(SubSeq(chunks, 1, i)))

\* C10: chunk sizes.  lda keeps nclients lists.  The chunks of a class are
\* consecutive runs of its shuffled indices; the first i of them hold the
\* integer nearest to n_c * (p_1 + ... + p_i), for every i but the last, and
\* the last chunk takes the rest; each chunk is appended to its client's
\* list.  A class without samples gives every client an empty chunk.
C10_ChunkSizes ==
    (lda.pc \in {"loop", "done"} /\ lda.c >= 1) =>
        LET w == lda.proportions[lda.c]
            n == Cardinality({i \in 1..Len(lda.Y) : lda.Y[i] = lda.c - 1})
        IN /\ Len(lda.distribution) = lda.nclients
           /\ Len(lda.dists_c) = lda.nclients
           /\ Len(lda.idx_c) = n
           /\ Flatten(lda.dists_c) = lda.idx_c
           /\ \A i \in 1..(lda.nclients - 1) :
                2 * Abs(UpTo(lda.dists_c, i) * PropDen - n * CumSum(w, i)) <= PropDen
           /\ \A i \in 1..lda.nclients :
                lda.distribution[i] = lda.before[i] \o lda.dists_c[i]
           /\ n = 0 => \A i \in 1..lda.nclients : lda.dists_c[i] = <<>>

\* three samples of one class cut for three clients into chunks of 1, 0 and 2
C10_Witness ==
    /\ lda.pc \in {"loop", "done"}
    /\ lda.c >= 1
    /\ lda.nclients = 3
    /\ Len(lda.idx_c) = 3
    /\ Len(lda.dists_c[1]) = 1
    /\ Len(lda.dists_c[2]) = 0
    /\ Len(lda.dists_c[3]) = 2

\* a class without samples was processed
C10_WitnessEmptyClass ==
    /\ lda.pc \in {"loop", "done"}
    /\ lda.c >= 1
    /\ lda.idx_c = <<>>
    /\ Len(lda.Y) > 0
    /\ lda.nclients >= 2

(***************************************************************************)
(* datasets.py: Dataset, DataIter.  An optional argument is <<>> when it   *)
(* is None or left out and <<v>> when it is given.  A generator is an      *)
(* object with a state, here the number of draws made from it; gens holds  *)
(* the four generators that the `rng=np.random.default_rng()` defaults     *)
(* create once, when the def statements run, and the caller's own.         *)
(***************************************************************************)
UniformDefault == 1

AddNormalDefault == 2

GetIterDefault == 3

FedSplitDefault == 4

CallerGens == (FedSplitDefault + 1)..(FedSplitDefault + MaxGens)

RngArgs == {<<>>} \cup {<<g>> : g \in CallerGens}

BatchArgs == {<<>>} \cup {<<b>> : b \in 0..MaxBatch}

\* a[mask] for a boolean mask
RECURSIVE Mask(_, _)
Mask(a, mask) ==
    IF a = <<>> THEN <<>>
    ELSE (IF Head(mask) THEN <<Head(a)>> ELSE <<>>) \o Mask(Tail(a), Tail(mask))

\* a[idx] for an array of 0-based indices
Take(a, idx) == [j \in 1..Len(idx) |-> a[idx[j] + 1]]

\* np.arange(n)
ARange(n) == [j \in 1..n |-> j - 1]

\* Dataset.train / Dataset.test
train(d) == [X |-> Mask(d.X, d.train_idx), y |-> Mask(d.y, d.train_idx)]

test(d) ==
    LET rest == [j \in 1..Len(d.train_idx) |-> ~d.train_idx[j]]
    IN [X |-> Mask(d.X, rest), y |-> Mask(d.y, rest)]

\* the filter functions tried: keep the samples whose label is in S
FilterFns == SUBSET (0..1)

ApplyFilter(S, y) == [j \in 1..Len(y) |-> y[j] \in S]

\* the map functions tried: keep the first k samples, or repeat every sample
\* (an augmentation); DataIter.map takes any function of (X, y)
MapFns == {[op |-> "take", k |-> k] : k \in 0..MaxData} \cup {[op |-> "repeat", k |-> 2]}

ApplyMap(f, X, y) ==
    IF f.op = "take"
    THEN [X |-> SubSeq(X, 1, Min2(f.k, Len(X))), y |-> SubSeq(y, 1, Min2(f.k, Len(y)))]
    ELSE [X |-> X \o X, y |-> y \o y]

\* y.shape[0] if batch_size is None else min(batch_size, y.shape[0])
Clamp(batch_size, n) == IF batch_size = <<>> THEN n ELSE Min2(batch_size[1], n)

\* DataIter.__init__
DataIterInit(X, y, batch_size, classes, rng) ==
    [X |-> X, y |-> y, batch_size |-> Clamp(batch_size, Len(y)), idx |-> ARange(Len(y)),
     classes |-> classes, rng |-> rng]

\* DataIter.map
DataIterMap(it, f) ==
    LET m == ApplyMap(f, it.X, it.y)
    IN [it EXCEPT !.X = m.X, !.y = m.y, !.idx = ARange(Len(m.y)),
                  !.batch_size = Clamp(<<it.batch_size>>, Len(m.y))]

\* DataIter.filter
DataIterFilter(it, S) ==
    LET keep == ApplyFilter(S, it.y)
        y == Mask(it.y, keep)
    IN [it EXCEPT !.X = Mask(it.X, keep), !.y = y, !.idx = ARange(Len(y)),
                  !.batch_size = Clamp(<<it.batch_size>>, Len(y))]

\* Dataset.get_iter, rng being the generator the call ends up with
get_iter(d, split, batch_size, idx, filter, map, rng) ==
    LET s0 == IF split = "train" THEN train(d) ELSE test(d)
        s1 == IF idx = <<>> THEN s0 ELSE [X |-> Take(s0.X, idx[1]), y |-> Take(s0.y, idx[1])]
        s2 == IF filter = <<>> THEN s1
              ELSE [X |-> Mask(s1.X, ApplyFilter(filter[1], s1.y)),
                    y |-> Mask(s1.y, ApplyFilter(filter[1], s1.y))]
        s3 == IF map = <<>> THEN s2 ELSE ApplyMap(map[1], s2.X, s2.y)
    IN DataIterInit(s3.X, s3.y, batch_size, d.classes, rng)

\* the index arrays tried for idx: ascending positions of the split
IdxArgs(n) ==
    {<<>>} \cup
    {<<a>> : a \in {x \in UNION {[1..k -> 0..(n - 1)] : k \in 0..n} :
                      \A i, j \in 1..Len(x) : i < j => x[i] < x[j]}}

\* a DataIter with what the model remembers of its making: the batch size
\* asked for and whether the caller passed the generator
Made(it, batch_size, rng) == [it |-> it, requested |-> batch_size, explicit |-> rng # <<>>]

InitIter ==
    /\ \E n \in 1..MaxData, ntrain \in 0..MaxData :
         /\ ntrain <= n
         /\ ds = [X |-> ARange(n), y |-> [j \in 1..n |-> (j - 1) % 2],
                  train_idx |-> [j \in 1..n |-> j <= ntrain],
                  classes |-> Cardinality({(j - 1) % 2 : j \in 1..n})]
    /\ gens = [g \in 1..(FedSplitDefault + MaxGens) |-> 0]
    /\ iters = <<>>
    /\ batch = [iter |-> 0, raised |-> "none", size |-> 0, held |-> 0,
                idx |-> <<>>, X |-> <<>>, y |-> <<>>]
    /\ rands = <<>>
    /\ lda = [pc |-> "idle"]
    /\ IdleWeights

GetIterCall ==
    /\ Len(iters) < MaxIters
    /\ \E split \in {"train", "test"}, batch_size \in BatchArgs, rng \in RngArgs,
          filter \in {<<>>, <<{0}>>}, map \in {<<>>, <<[op |-> "take", k |-> 1]>>} :
         \E idx \in IdxArgs(Len((IF split = "train" THEN train(ds) ELSE test(ds)).y)) :
            iters' = Append(iters,
                       Made(get_iter(ds, split, batch_size, idx, filter, map,
                                     IF rng = <<>> THEN GetIterDefault ELSE rng[1]),
                            batch_size, rng))
    /\ UNCHANGED <<heap, skel_g, skel_l, call, lda, ds, gens, batch, rands>>

\* the index lists a mapping may return: each training sample given to one of
\* the k clients
Distributions(n, k) ==
    {[c \in 1..k |-> Mask(ARange(n), [j \in 1..n |-> a[j] = c])] : a \in [1..n -> 1..k]}

\* Dataset.fed_split without a mapping: every client iterates the whole
\* training set
FedSplitCall ==
    /\ \E batch_sizes \in UNION {[1..k -> BatchArgs] : k \in 1..MaxIters}, rng \in RngArgs :
         LET g == IF rng = <<>> THEN FedSplitDefault ELSE rng[1]
         IN /\ Len(iters) + Len(batch_sizes) <= MaxIters
            /\ iters' = iters \o
                  [c \in 1..Len(batch_sizes) |->
                     Made(get_iter(ds, "train", batch_sizes[c], <<>>, <<>>, <<>>, g),
                          batch_sizes[c], rng)]
    /\ UNCHANGED <<heap, skel_g, skel_l, call, lda, ds, gens, batch, rands>>

\* Dataset.fed_split with a mapping, which draws from the generator it is
\* handed (as lda does) and returns one index list per client
FedSplitMappingCall ==
    /\ \E batch_sizes \in UNION {[1..k -> BatchArgs] : k \in 1..MaxIters}, rng \in RngArgs :
         LET g == IF rng = <<>> THEN FedSplitDefault ELSE rng[1]
         IN /\ Len(iters) + Len(batch_sizes) <= MaxIters
            /\ gens[g] < MaxDraws
            /\ gens' = [gens EXCEPT ![g] = gens[g] + 1]
            /\ \E distribution \in Distributions(Len(train(ds).y), Len(batch_sizes)) :
                 iters' = iters \o
                    [c \in 1..Len(batch_sizes) |->
                       Made(get_iter(ds, "train", batch_sizes[c], <<distribution[c]>>,
                                     <<>>, <<>>, g),
                            batch_sizes[c], rng)]
    /\ UNCHANGED <<heap, skel_g, skel_l, call, lda, ds, batch, rands>>

\* the results rng.choice(idx, size, replace=False) may give
Choices(idx, size) ==
    {x \in [1..size -> 0..(Len(idx) - 1)] : \A i, j \in 1..size : x[i] = x[j] => i = j}

\* DataIter.__next__: rng.choice refuses a sample larger than the population
IterNext ==
    /\ \E i \in 1..Len(iters) :
         LET it == iters[i].it
         IN IF it.batch_size > Len(it.idx)
            THEN /\ batch' = [iter |-> i, raised |-> "ValueError", size |-> it.batch_size,
                              held |-> Len(it.y), idx |-> <<>>, X |-> <<>>, y |-> <<>>]
                 /\ gens' = gens
            ELSE /\ gens[it.rng] < MaxDraws
                 /\ gens' = [gens EXCEPT ![it.rng] = gens[it.rng] + 1]
                 /\ \E idx \in Choices(it.idx, it.batch_size) :
                      batch' = [iter |-> i, raised |-> "none", size |-> it.batch_size,
                                held |-> Len(it.y), idx |-> idx,
                                X |-> Take(it.X, idx), y |-> Take(it.y, idx)]
    /\ UNCHANGED <<heap, skel_g, skel_l, call, lda, ds, iters, rands>>

IterMap ==
    /\ \E i \in 1..Len(iters), f \in MapFns :
         /\ Len(ApplyMap(f, iters[i].it.X, iters[i].it.y).y) <= MaxHeld
         /\ iters' = [iters EXCEPT ![i].it = DataIterMap(iters[i].it, f)]
    /\ UNCHANGED <<heap, skel_g, skel_l, call, lda, ds, gens, batch, rands>>

IterFilter ==
    /\ \E i \in 1..Len(iters), S \in FilterFns :
         iters' = [iters EXCEPT ![i].it = DataIterFilter(iters[i].it, S)]
    /\ UNCHANGED <<heap, skel_g, skel_l, call, lda, ds, gens, batch, rands>>

NextIter ==
    \/ GetIterCall
    \/ FedSplitCall
    \/ FedSplitMappingCall
    \/ IterNext
    \/ IterMap
    \/ IterFilter

SpecIter == InitIter /\ [][NextIter]_vars

\* weights.uniform: one draw from the generator given, or from the function's
\* own default
UniformCall ==
    /\ Len(rands) < MaxRands
    /\ \E rng \in RngArgs :
         LET g == IF rng = <<>> THEN UniformDefault ELSE rng[1]
         IN /\ gens[g] < MaxDraws
            /\ gens' = [gens EXCEPT ![g] = gens[g] + 1]
            /\ rands' = Append(rands, [fn |-> "uniform", rng |-> g, explicit |-> rng # <<>>])
    /\ UNCHANGED <<heap, skel_g, skel_l, call, lda, ds, iters, batch>>

\* weights.add_normal: likewise
AddNormalCall ==
    /\ Len(rands) < MaxRands
    /\ \E rng \in RngArgs :
         LET g == IF rng = <<>> THEN AddNormalDefault ELSE rng[1]
         IN /\ gens[g] < MaxDraws
            /\ gens' = [gens EXCEPT ![g] = gens[g] + 1]
            /\ rands' = Append(rands, [fn |-> "add_normal", rng |-> g, explicit |-> rng # <<>>])
    /\ UNCHANGED <<heap, skel_g, skel_l, call, lda, ds, iters, batch>>

NextRng ==
    \/ GetIterCall
    \/ FedSplitCall
    \/ FedSplitMappingCall
    \/ IterNext
    \/ UniformCall
    \/ AddNormalCall

SpecRng == InitIter /\ [][NextRng]_vars

(***************************************************************************)
(* Claims about DataIter and the generators.                               *)
(***************************************************************************)
\* what next last returned: as many samples as the batch size, at pairwise
\* distinct indices of the range the iterator held
BatchDrawn ==
    batch.iter # 0 =>
        /\ batch.raised = "none"
        /\ Len(batch.idx) = batch.size
        /\ \A j \in 1..Len(batch.idx) : batch.idx[j] \in 0..(batch.held - 1)
        /\ \A j, k \in 1..Len(batch.idx) : batch.idx[j] = batch.idx[k] => j = k

\* the part of the batch contract that holds whatever map returns: the batch
\* size never exceeds the samples held and next returns that many samples
BatchWithinHeld ==
    /\ \A i \in 1..Len(iters) : iters[i].it.batch_size <= Len(iters[i].it.y)
    /\ BatchDrawn

\* C4: after construction and after any maps and filters, batch_size is at
\* most the number of held samples, and is all of them when the batch size
\* asked for was None or at least that number; next returns exactly
\* batch_size samples at pairwise distinct indices of the held range and
\* raises nothing
C4_BatchContract ==
    /\ BatchWithinHeld
    /\ \A i \in 1..Len(iters) :
         LET n == Len(iters[i].it.y)
             r == iters[i].requested
         IN (r = <<>> \/ r[1] >= n) => iters[i].it.batch_size = n
    /\ batch.iter # 0 =>
         LET r == iters[batch.iter].requested
         IN (r = <<>> \/ r[1] >= batch.held) => Len(batch.idx) = batch.held

\* C9: two iterators, or two calls of uniform / add_normal, use one generator
\* object only if the caller passed that generator to both
C9_NoImplicitSharing ==
    /\ \A i, j \in 1..Len(iters) :
         (i # j /\ iters[i].it.rng = iters[j].it.rng)
            => (iters[i].explicit /\ iters[j].explicit)
    /\ \A i, j \in 1..Len(rands) :
         (i # j /\ rands[i].rng = rands[j].rng)
            => (rands[i].explicit /\ rands[j].explicit)

====
